---------------------------- MODULE Spec2Model ----------------------------
(***************************************************************************)
(* A model of miniwavesurferjs: the WaveSurfer facade of                   *)
(* src/src/wavesurfer.js, with the two collaborators it imports and that   *)
(* are not part of the sources at hand: the PeakCache ("Range Cache") and  *)
(* the drawer ("Surface Manager").  The facade is translated from its      *)
(* code; the PeakCache is written from section 4.1 of the specification;   *)
(* the drawer is a recording stub: every call the facade makes on it is    *)
(* appended to `calls`, as is every event the facade fires.                *)
(*                                                                         *)
(* JavaScript numbers that occur here are non-negative integers, `NaN` or  *)
(* `undefined`; the two non-numbers are the sentinels NaN and Undefined,   *)
(* and every arithmetic operator of the code is an operator below that     *)
(* treats them as JavaScript does.                                         *)
(***************************************************************************)
EXTENDS Integers, Sequences, FiniteSets, TLC

(***************************************************************************)
(* Bounds of the model                                                     *)
(***************************************************************************)
\* pixel columns 0..MaxCol are requested from the cache when it is driven directly
MaxCol == 4
\* the host's visible width, drawer.getWidth(), ranges over 0..MaxParentWidth
MaxParentWidth == 2
\* load() is called with durations 0..MaxDuration (0 is the falsy duration)
MaxDuration == 1
\* zoom() is called with 0..MaxZoom pixels per second (0 is the falsy argument)
MaxZoom == 2
\* the constructor is called with maxCanvasWidth in -1..MaxCanvasWidthArg
MaxCanvasWidthArg == 3
\* the drawer is laid out for total widths 0..MaxTotalWidth
MaxTotalWidth == 20
\* with tiles of an even width up to MaxTileWidth
MaxTileWidth == 6
\* the samples painted are in -MaxSample..MaxSample, as is peakMax
MaxSample == 2
\* in buffers of up to MaxBufferLen samples
MaxBufferLen == 2
\* on a surface whose half height is in 1..MaxHalfHeight
MaxHalfHeight == 3
\* with a barMinHeight in 1..MaxBarMinHeight, or none
MaxBarMinHeight == 4
\* the host skips by, and sets the position to, times up to MaxSkip seconds
MaxSkip == 2
\* the host registers lists of at most MaxRegistered plugin definitions
MaxRegistered == 2

(***************************************************************************)
(* JavaScript values                                                       *)
(***************************************************************************)
\* `undefined` where a number is expected (this.duration before the first load)
Undefined == -1
\* NaN, the result of arithmetic on undefined
NaN == -2

IsNumber(x) == x >= 0

\* a * b of two JavaScript numbers
Mul(a, b) == IF IsNumber(a) /\ IsNumber(b) THEN a * b ELSE NaN

\* a < b: false when an operand is NaN
Lt(a, b) == IsNumber(a) /\ IsNumber(b) /\ a < b

\* a != b: true when an operand is NaN
Differs(a, b) == ~IsNumber(a) \/ ~IsNumber(b) \/ a # b

\* Math.max(a, b): NaN when an operand is NaN
MathMax(a, b) == IF IsNumber(a) /\ IsNumber(b) THEN (IF a >= b THEN a ELSE b) ELSE NaN

\* Math.round(a * n / d) for a rational pixel ratio n/d: the nearest integer,
\* halves towards +infinity
MathRoundRatio(a, n, d) == IF IsNumber(a) THEN (2 * a * n + d) \div (2 * d) ELSE NaN

\* a % b of JavaScript: the sign of the result is the sign of the dividend
JsRem(a, b) == IF a >= 0 THEN a % b ELSE 0 - ((0 - a) % b)

Min2(a, b) == IF a <= b THEN a ELSE b
Max2(a, b) == IF a >= b THEN a ELSE b

\* the pixel columns of a sequence of ranges <<start, end>>
Cols(ranges) == UNION {ranges[i][1] .. (ranges[i][2] - 1) : i \in DOMAIN ranges}

(***************************************************************************)
(* PeakCache: the Range Cache of section 4.1.  A cache is a record         *)
(* [isNull, peakCacheRanges, peakCacheLength]; the ranges are pairs        *)
(* <<start, end>> standing for [start, end).                               *)
(***************************************************************************)
\* the recorded width of a cache that has served no call
NoLength == -1

NullCache == [isNull |-> TRUE, peakCacheRanges |-> <<>>, peakCacheLength |-> NoLength]

\* new PeakCache()
NewPeakCache == [isNull |-> FALSE, peakCacheRanges |-> <<>>, peakCacheLength |-> NoLength]

\* mutant: the new width is recorded and the painted set is kept
KeepOnWidthChange(cache, totalWidth) == [cache EXCEPT !.peakCacheLength = totalWidth]

\* "If totalWidth differs from the width recorded on the previous call, the
\* entire painted set is discarded first"
ClearIfWidthChanged(cache, totalWidth) ==
    IF Differs(totalWidth, cache.peakCacheLength)
    THEN [cache EXCEPT !.peakCacheRanges = <<>>, !.peakCacheLength = totalWidth]
    ELSE cache

\* mutant: a request with any unpainted column is returned whole
GapsWhole(entries, start, end) ==
    IF (start .. (end - 1)) \ Cols(entries) # {} THEN << <<start, end>> >> ELSE <<>>

\* "the gaps between [start, end) and the pre-existing coverage": one scan of
\* the sorted entry list
RECURSIVE Gaps(_, _, _)
Gaps(entries, start, end) ==
    IF ~(start < end) THEN <<>>
    ELSE IF entries = <<>> THEN << <<start, end>> >>
    ELSE LET h == Head(entries) IN
         IF h[2] <= start THEN Gaps(Tail(entries), start, end)
         ELSE IF h[1] >= end THEN << <<start, end>> >>
         ELSE (IF h[1] > start THEN << <<start, h[1]>> >> ELSE <<>>)
              \o Gaps(Tail(entries), Max2(start, h[2]), end)

\* "any existing entry overlapping or adjacent (existing.start <= end &&
\* existing.end >= start) is absorbed"
Absorbs(existing, start, end) == existing[1] <= end /\ existing[2] >= start

\* mutant: a request that absorbs no entry is not inserted
MergeAbsorbedOnly(entries, start, end) ==
    LET absorbed == SelectSeq(entries, LAMBDA x : Absorbs(x, start, end))
        before   == SelectSeq(entries, LAMBDA x : ~Absorbs(x, start, end) /\ x[2] < start)
        after    == SelectSeq(entries, LAMBDA x : ~Absorbs(x, start, end) /\ x[1] > end)
    IN IF absorbed = <<>> THEN entries
       ELSE before \o << <<Min2(start, absorbed[1][1]),
                            Max2(end, absorbed[Len(absorbed)][2])>> >> \o after

\* mutant: only the entries that overlap the request are absorbed, the
\* adjacent ones stay
MergeOverlapping(entries, start, end) ==
    LET absorbed == SelectSeq(entries, LAMBDA x : x[1] < end /\ x[2] > start)
        before   == SelectSeq(entries, LAMBDA x : x[2] <= start)
        after    == SelectSeq(entries, LAMBDA x : x[1] >= end)
        lo == IF absorbed = <<>> THEN start ELSE Min2(start, absorbed[1][1])
        hi == IF absorbed = <<>> THEN end ELSE Max2(end, absorbed[Len(absorbed)][2])
    IN before \o << <<lo, hi>> >> \o after

\* the entry list after [start, end) is inserted: the absorbed entries and the
\* request become one widened entry
Merge(entries, start, end) ==
    LET absorbed == SelectSeq(entries, LAMBDA x : Absorbs(x, start, end))
        before   == SelectSeq(entries, LAMBDA x : ~Absorbs(x, start, end) /\ x[2] < start)
        after    == SelectSeq(entries, LAMBDA x : ~Absorbs(x, start, end) /\ x[1] > end)
        lo == IF absorbed = <<>> THEN start ELSE Min2(start, absorbed[1][1])
        hi == IF absorbed = <<>> THEN end ELSE Max2(end, absorbed[Len(absorbed)][2])
    IN before \o << <<lo, hi>> >> \o after

\* the painted set after addRange(totalWidth, start, end); a degenerate or
\* non-numeric request paints nothing
\* mutant: a degenerate range is inserted as any other
AddRangeCacheInserting(cache, totalWidth, start, end) ==
    LET c == ClearIfWidthChanged(cache, totalWidth) IN
    IF IsNumber(start) /\ IsNumber(end)
    THEN [c EXCEPT !.peakCacheRanges = Merge(c.peakCacheRanges, start, end)]
    ELSE [c EXCEPT !.peakCacheRanges = << <<start, end>> >>]

AddRangeCache(cache, totalWidth, start, end) ==
    LET c == ClearIfWidthChanged(cache, totalWidth) IN
    IF IsNumber(start) /\ IsNumber(end)
    THEN (IF start < end
          THEN [c EXCEPT !.peakCacheRanges = Merge(c.peakCacheRanges, start, end)]
          ELSE c)
    ELSE [c EXCEPT !.peakCacheRanges = << <<start, end>> >>]

\* the sub-ranges addRange(totalWidth, start, end) returns
AddRangeResult(cache, totalWidth, start, end) ==
    LET c == ClearIfWidthChanged(cache, totalWidth) IN
    IF IsNumber(start) /\ IsNumber(end)
    THEN Gaps(c.peakCacheRanges, start, end)
    ELSE << <<start, end>> >>


(***************************************************************************)
(* The state of one WaveSurfer instance and of its host                    *)
(***************************************************************************)
VARIABLES
    phase,        \* "new", "constructed" (the constructor returned), "failed"
                  \* (it threw), "initialised" (init() returned) or "destroyed"
                  \* (destroy() returned)
    params,       \* this.params
    drawer,       \* this.drawer: "null" or "Drawer"
    peakCache,    \* this.peakCache
    peaks,        \* this.peaks: "undefined" or the name of a peak buffer
    duration,     \* this.duration
    peakMax,      \* this.peakMax
    curPosition,  \* this.curPosition, in 1/One seconds
    isReady,      \* this.isReady
    isDestroyed,  \* this.isDestroyed
    plugins,      \* this[name] for each plugin name: whether an instance was added
                  \* under that name and whether the instance has a destroy function
    initialisedPluginList,  \* the keys of this.initialisedPluginList, as inserted
    parentWidth,  \* what drawer.getWidth() returns: the host's visible width
    calls,        \* the drawer calls made and the events fired by the last operation
    last,         \* the last operation: its name, its arguments (but for load's,
                  \* which a load that returns leaves in peaks, duration and
                  \* peakMax, and seekTo's), the error it threw, its number of
                  \* drawBuffer() calls and this.isReady at each entry of calls
    audit,        \* history of the calls made on the cache when it is driven directly
    unzoomed,     \* when the zoom is followed: <<>> until zoom() is first called,
                  \* then <<minPxPerSec, scrollParent>> of params as that call
                  \* found them
    surface       \* the drawing surface when the drawer is driven directly

vars == <<phase, params, drawer, peakCache, peaks, duration, peakMax,
          curPosition, isReady, isDestroyed, plugins, initialisedPluginList,
          parentWidth, calls, last, audit, unzoomed, surface>>

\* the host calls seekTo(progress) with progress = k / ProgressDen
ProgressDen == 2

\* a common multiple of the durations 1..n
RECURSIVE CommonMultiple(_)
CommonMultiple(n) == IF n <= 1 THEN 1 ELSE n * CommonMultiple(n - 1)

\* the number 1 as a progress: a progress and a played fraction are counted in
\* units of 1 / One and a position in units of 1 / One seconds, fine enough
\* for position / duration to be exact for every position that occurs
One == ProgressDen * CommonMultiple(MaxDuration)

\* defaultParams.minPxPerSec
DefaultMinPxPerSec == 20

\* the peak scale of the README's example, load(peaks, 1, 255)
PeakMaxByte == 255

\* window.devicePixelRatio as a fraction <<numerator, denominator>>
PixelRatios == {<<1, 1>>, <<3, 2>>}

\* the peak buffers load() is called with; "undefined" is a missing argument,
\* "empty" an array of length 0
PeakBuffers == {"p1", "p2"}
PeakArgs == PeakBuffers \cup {"undefined", "empty"}

\* the calls of load(peaks, duration, pmax): the byte-valued buffer "p1" comes
\* with its scale, every other call leaves pmax out
LoadArgs ==
    {<<p, d, IF p = "p1" THEN PeakMaxByte ELSE Undefined>> :
        p \in PeakArgs, d \in (0 .. MaxDuration) \cup {Undefined}}

\* the options the constructor is called with; container and renderer say
\* whether the container element is found and whether renderer is a function
UserParams ==
    [maxCanvasWidth : -1 .. MaxCanvasWidthArg,
     fillParent     : BOOLEAN,
     scrollParent   : BOOLEAN,
     minPxPerSec    : {1, DefaultMinPxPerSec},
     pixelRatio     : PixelRatios,
     partialRender  : BOOLEAN,
     container      : BOOLEAN,
     renderer       : BOOLEAN]

\* defaultParams, with a container and the MultiCanvas renderer; barHeight is a
\* fraction as pixelRatio is, and a null barMinHeight is Undefined
DefaultParams ==
    [barHeight      |-> <<1, 1>>,
     barMinHeight   |-> Undefined,
     normalize      |-> FALSE,
     maxCanvasWidth |-> 4000,
     fillParent     |-> TRUE,
     scrollParent   |-> FALSE,
     minPxPerSec    |-> DefaultMinPxPerSec,
     peakMax        |-> 0,
     skipLength     |-> 2,
     pixelRatio     |-> <<1, 1>>,
     partialRender  |-> FALSE,
     container      |-> FALSE,
     renderer       |-> TRUE]

NoError == "none"

\* the names under which the host adds plugins
PluginNames == {"cursor", "timeline"}

\* no plugin was added
NoPlugins == [n \in PluginNames |-> [added |-> FALSE, destroy |-> FALSE]]

\* the surface of a new drawer: no width, no tile, nothing painted
NoSurface == [width |-> 0, tiles |-> <<>>, halfCanvasHeight |-> 0, buffer |-> <<>>,
              heights |-> <<>>]

\* audit: the width of the current run of calls with one totalWidth, the columns
\* requested and returned in that run, whether a column was returned by two
\* calls of the run, and the last two calls
NoAudit == [width |-> NoLength, requested |-> {}, returned |-> {}, twice |-> FALSE,
            history |-> <<>>]

(***************************************************************************)
(* Methods of WaveSurfer.  Each takes the instance t (the fields of `this`, *)
(* the calls made so far and the error thrown so far) and returns it as    *)
(* the method leaves it; a method that threw leaves `thrown` set, and the  *)
(* statements after a throwing call are not executed.  t.drawBuffers       *)
(* counts the invocations of drawBuffer(), and t.isReadyAt[i] is what      *)
(* this.isReady was when the call or event t.calls[i] was made, as         *)
(* t.scrollParentAt[i] is what this.params.scrollParent was.               *)
(***************************************************************************)
This ==
    [params |-> params, drawer |-> drawer, peakCache |-> peakCache, peaks |-> peaks,
     duration |-> duration, peakMax |-> peakMax, curPosition |-> curPosition,
     isReady |-> isReady, isDestroyed |-> isDestroyed, plugins |-> plugins,
     initialisedPluginList |-> initialisedPluginList,
     calls |-> <<>>, isReadyAt |-> <<>>, scrollParentAt |-> <<>>, thrown |-> NoError,
     drawBuffers |-> 0]

Throw(t, message) == [t EXCEPT !.thrown = message]

\* this.fireEvent(name, ...args): the listeners are the host's
fireEvent(t, event) ==
    [t EXCEPT !.calls = Append(@, <<"fireEvent">> \o event),
              !.isReadyAt = Append(@, t.isReady),
              !.scrollParentAt = Append(@, t.params.scrollParent)]

\* a call of a method of this.drawer; on a null drawer it is a TypeError
drawerCall(t, call) ==
    IF t.drawer = "null" THEN Throw(t, "TypeError")
    ELSE [t EXCEPT !.calls = Append(@, call), !.isReadyAt = Append(@, t.isReady),
              !.scrollParentAt = Append(@, t.params.scrollParent)]

\* getDuration()
getDuration(t) == t.duration

\* getCurrentTime()
getCurrentTime(t) == t.curPosition

\* mutant: a progress above 1 is let through
seekToNoUpperBound(t, progress) ==
    IF ~IsNumber(progress)
    THEN Throw(t, "Error calling wavesurfer.seekTo, parameter must be a number between 0 and 1!")
    ELSE LET t1 == fireEvent(t, <<"interaction">>)
             oldScrollParent == t1.params.scrollParent
             t2 == [t1 EXCEPT !.params.scrollParent = FALSE,
                              !.curPosition = Mul(progress, getDuration(t1))]
             t3 == drawerCall(t2, <<"drawer.progress", progress>>)
         IN IF t3.thrown # NoError THEN t3
            ELSE fireEvent([t3 EXCEPT !.params.scrollParent = oldScrollParent],
                           <<"seek", progress>>)

\* mutant: 'seek' is fired before the drawer is told
seekToSeekFirst(t, progress) ==
    IF ~IsNumber(progress) \/ progress > One
    THEN Throw(t, "Error calling wavesurfer.seekTo, parameter must be a number between 0 and 1!")
    ELSE LET t1 == fireEvent(t, <<"interaction">>)
             oldScrollParent == t1.params.scrollParent
             t2 == [t1 EXCEPT !.params.scrollParent = FALSE,
                              !.curPosition = Mul(progress, getDuration(t1))]
             t3 == fireEvent(t2, <<"seek", progress>>)
             t4 == drawerCall(t3, <<"drawer.progress", progress>>)
         IN IF t4.thrown # NoError THEN t4
            ELSE [t4 EXCEPT !.params.scrollParent = oldScrollParent]

\* seekTo(progress)
seekTo(t, progress) ==
    IF ~IsNumber(progress) \/ progress > One
    THEN Throw(t, "Error calling wavesurfer.seekTo, parameter must be a number between 0 and 1!")
    ELSE LET t1 == fireEvent(t, <<"interaction">>)
             oldScrollParent == t1.params.scrollParent
             t2 == [t1 EXCEPT !.params.scrollParent = FALSE,
                              !.curPosition = Mul(progress, getDuration(t1))]
             t3 == drawerCall(t2, <<"drawer.progress", progress>>)
         IN IF t3.thrown # NoError THEN t3
            ELSE fireEvent([t3 EXCEPT !.params.scrollParent = oldScrollParent],
                           <<"seek", progress>>)

\* stop(): pause() only logs
stop(t) == seekTo(t, 0)

\* mutant: isReady is left as it was
emptyKeepingReady(t) ==
    LET t1 == stop(t) IN
    IF t1.thrown # NoError THEN t1
    ELSE LET t2 == [t1 EXCEPT !.curPosition = 0, !.duration = 0]
             t3 == drawerCall(t2, <<"drawer.progress", 0>>)
             t4 == drawerCall(t3, <<"drawer.setWidth", 0>>)
         IN drawerCall(t4, <<"drawer.drawPeaks", "{length}", 0, Undefined, Undefined>>)

\* empty()
empty(t) ==
    LET t1 == stop(t) IN
    IF t1.thrown # NoError THEN t1
    ELSE LET t2 == [t1 EXCEPT !.curPosition = 0, !.duration = 0, !.isReady = FALSE]
             t3 == drawerCall(t2, <<"drawer.progress", 0>>)
             t4 == drawerCall(t3, <<"drawer.setWidth", 0>>)
         IN drawerCall(t4, <<"drawer.drawPeaks", "{length}", 0, Undefined, Undefined>>)

\* drawBuffer(), lines 979-983: nominalWidth
NominalWidth(t) ==
    MathRoundRatio(Mul(t.duration, t.params.minPxPerSec),
                   t.params.pixelRatio[1], t.params.pixelRatio[2])

\* mutant: scrollParent is not looked at
FillContainerIgnoringScroll(t) == t.params.fillParent

\* drawBuffer(), lines 990-993: the condition of "Fill container"
FillContainer(t) ==
    t.params.fillParent
    /\ (~t.params.scrollParent \/ Lt(NominalWidth(t), parentWidth))

\* drawBuffer(): width as it is passed on
DrawWidth(t) == IF FillContainer(t) THEN parentWidth ELSE NominalWidth(t)

\* drawBuffer(): start as it is passed on
DrawStart(t) == 0

\* drawBuffer(): end as it is passed on
DrawEnd(t) ==
    IF FillContainer(t) THEN parentWidth
    ELSE MathMax(0 + parentWidth, NominalWidth(t))

\* mutant: every new range is drawn twice
RECURSIVE DrawRangesTwice(_, _, _)
DrawRangesTwice(t, width, newRanges) ==
    IF newRanges = <<>> \/ t.thrown # NoError THEN t
    ELSE LET call == <<"drawer.drawPeaks", t.peaks, width,
                       Head(newRanges)[1], Head(newRanges)[2]>>
         IN DrawRangesTwice(drawerCall(drawerCall(t, call), call), width,
                            Tail(newRanges))

\* drawBuffer(), lines 1007-1010: one drawPeaks per new range, in order
RECURSIVE DrawRanges(_, _, _)
DrawRanges(t, width, newRanges) ==
    IF newRanges = <<>> \/ t.thrown # NoError THEN t
    ELSE DrawRanges(drawerCall(t, <<"drawer.drawPeaks", t.peaks, width,
                                    Head(newRanges)[1], Head(newRanges)[2]>>),
                    width, Tail(newRanges))

\* drawBuffer(), lines 1000-1014: what is drawn
DrawPeaks(t) ==
    LET width == DrawWidth(t)
        start == DrawStart(t)
        end   == DrawEnd(t)
    IN IF t.params.partialRender
       THEN IF t.peakCache.isNull THEN Throw(t, "TypeError")
            ELSE DrawRanges(
                     [t EXCEPT !.peakCache = AddRangeCache(@, width, start, end)],
                     width,
                     AddRangeResult(t.peakCache, width, start, end))
       ELSE drawerCall(t, <<"drawer.drawPeaks", t.peaks, width, start, end>>)

\* mutant: 'redraw' is fired only when something was drawn
drawBufferQuiet(t) ==
    LET t0 == [t EXCEPT !.drawBuffers = @ + 1] IN
    IF t0.drawer = "null" THEN Throw(t0, "TypeError")
    ELSE LET t1 == DrawPeaks(t0) IN
         IF t1.thrown # NoError \/ t1.calls = t0.calls THEN t1
         ELSE fireEvent(t1, <<"redraw", t1.peaks, DrawWidth(t0)>>)

\* drawBuffer()
drawBuffer(t) ==
    LET t0 == [t EXCEPT !.drawBuffers = @ + 1] IN
    IF t0.drawer = "null" THEN Throw(t0, "TypeError")
    ELSE LET t1 == DrawPeaks(t0) IN
         IF t1.thrown # NoError THEN t1
         ELSE fireEvent(t1, <<"redraw", t1.peaks, DrawWidth(t0)>>)

\* mutant: the view is emptied before the arguments are checked
loadEmptyingFirst(t, peaksArg, durationArg, pmax) ==
    LET t1 == empty(t) IN
    IF t1.thrown # NoError THEN t1
    ELSE IF peaksArg \in {"undefined", "empty"} THEN Throw(t1, "peaks cannot be empty")
    ELSE IF ~IsNumber(durationArg) \/ durationArg = 0
    THEN Throw(t1, "duration parameter cannot be empty")
    ELSE LET t2 == [t1 EXCEPT !.peaks = peaksArg, !.duration = durationArg,
                              !.peakMax = IF IsNumber(pmax) THEN pmax ELSE 0]
             t3 == drawBuffer(t2)
         IN IF t3.thrown # NoError THEN t3
            ELSE fireEvent([t3 EXCEPT !.isReady = TRUE], <<"ready">>)

\* load(peaks, duration, pmax)
load(t, peaksArg, durationArg, pmax) ==
    IF peaksArg \in {"undefined", "empty"} THEN Throw(t, "peaks cannot be empty")
    ELSE IF ~IsNumber(durationArg) \/ durationArg = 0
    THEN Throw(t, "duration parameter cannot be empty")
    ELSE LET t1 == empty(t) IN
         IF t1.thrown # NoError THEN t1
         ELSE LET t2 == [t1 EXCEPT !.peaks = peaksArg, !.duration = durationArg,
                                   !.peakMax = IF IsNumber(pmax) THEN pmax ELSE 0]
                  t3 == drawBuffer(t2)
              IN IF t3.thrown # NoError THEN t3
                 ELSE fireEvent([t3 EXCEPT !.isReady = TRUE], <<"ready">>)


\* a / b of two JavaScript numbers; the quotients that occur are exact
Infinity == -3
Div(a, b) ==
    IF ~IsNumber(a) \/ ~IsNumber(b) THEN NaN
    ELSE IF b = 0 THEN (IF a = 0 THEN NaN ELSE Infinity)
    ELSE a \div b

\* getPlayedPercents(): getCurrentTime() / duration || 0
getPlayedPercents(t) ==
    LET q == Div(getCurrentTime(t), t.duration) IN
    IF q = NaN THEN 0 ELSE q

\* whether x is truthy: every number but 0 and NaN is, undefined is not
Truthy(x) == x \notin {0, NaN, Undefined}

\* a >= b of two JavaScript values: false when either is not a number
Ge(a, b) == IsNumber(a) /\ IsNumber(b) /\ a >= b

\* setCurrentTime(seconds), seconds in 1/One seconds
setCurrentTime(t, seconds) ==
    IF Ge(seconds, Mul(t.duration, One)) THEN seekTo(t, One)
    ELSE seekTo(t, Div(seconds, t.duration))

\* seekAndCenter(progress)
seekAndCenter(t, progress) ==
    LET t1 == seekTo(t, progress) IN
    IF t1.thrown # NoError THEN t1
    ELSE drawerCall(t1, <<"drawer.recenter", progress>>)

\* mutant: the position is not kept below the duration
skipUnbounded(t, offset) ==
    LET duration_ == IF Truthy(t.duration) THEN t.duration ELSE 1
        position  == IF Truthy(getCurrentTime(t)) THEN getCurrentTime(t) ELSE 0
        clamped   == Max2(0, position + offset)
    IN seekAndCenter(t, Div(clamped, duration_))

\* skip(offset), offset a number (a missing one is 0) in 1/One seconds, below
\* zero to skip backwards
skip(t, offset) ==
    LET duration_ == IF Truthy(t.duration) THEN t.duration ELSE 1
        position  == IF Truthy(getCurrentTime(t)) THEN getCurrentTime(t) ELSE 0
        clamped   == Max2(0, Min2(duration_ * One, position + offset))
    IN seekAndCenter(t, Div(clamped, duration_))

\* skipBackward(seconds): skip(-seconds || -params.skipLength)
skipBackward(t, seconds) ==
    skip(t, IF Truthy(seconds) THEN 0 - seconds ELSE 0 - t.params.skipLength * One)

\* skipForward(seconds): skip(seconds || params.skipLength)
skipForward(t, seconds) ==
    skip(t, IF Truthy(seconds) THEN seconds ELSE t.params.skipLength * One)

\* toggleScroll()
toggleScroll(t) == drawBuffer([t EXCEPT !.params.scrollParent = ~@])

\* setWaveColor(color), setProgressColor(color), setFilteredChannels(indices):
\* an option that takes no part in the geometry is set, then drawBuffer()
setWaveColor(t) == drawBuffer(t)

\* zoom(pxPerSec)
zoom(t, pxPerSec) ==
    LET t1 == IF ~IsNumber(pxPerSec) \/ pxPerSec = 0
              THEN [t EXCEPT !.params.minPxPerSec = DefaultMinPxPerSec,
                             !.params.scrollParent = FALSE]
              ELSE [t EXCEPT !.params.minPxPerSec = pxPerSec,
                             !.params.scrollParent = TRUE]
        t2 == drawBuffer(t1)
    IN IF t2.thrown # NoError THEN t2
       ELSE LET t3 == drawerCall(t2, <<"drawer.progress", getPlayedPercents(t2)>>)
                t4 == drawerCall(t3, <<"drawer.recenter",
                                       Div(getCurrentTime(t3), getDuration(t3))>>)
            IN fireEvent(t4, <<"zoom", pxPerSec>>)

\* createDrawer(), lines 595-600: the handler of the drawer's 'scroll' event
onDrawerScroll(t) ==
    LET t1 == IF t.params.partialRender THEN drawBuffer(t) ELSE t IN
    IF t1.thrown # NoError THEN t1 ELSE fireEvent(t1, <<"scroll">>)

\* createDrawer(), lines 584-587: the handler of the drawer's 'redraw' event;
\* this.backend is never assigned, so this.backend.getPlayedPercents() is a
\* TypeError
onDrawerRedraw(t) ==
    LET t1 == drawBuffer(t) IN
    IF t1.thrown # NoError THEN t1 ELSE Throw(t1, "TypeError")

\* mutant: the parity of maxCanvasWidth is not checked
MaxCanvasWidthErrorNoParity(p) ==
    IF p.maxCanvasWidth <= 1 THEN "maxCanvasWidth must be greater than 1" ELSE NoError

\* constructor, lines 334-338: the check of maxCanvasWidth
MaxCanvasWidthError(p) ==
    IF p.maxCanvasWidth <= 1 THEN "maxCanvasWidth must be greater than 1"
    ELSE IF JsRem(p.maxCanvasWidth, 2) = 1 THEN "maxCanvasWidth must be an even number"
    ELSE NoError

\* constructor: the first error it throws, in the order of its checks
ConstructorError(p) ==
    IF ~p.container THEN "Container element not found"
    ELSE IF MaxCanvasWidthError(p) # NoError THEN MaxCanvasWidthError(p)
    ELSE IF ~p.renderer THEN "Renderer parameter is invalid"
    ELSE NoError

\* Object.assign({}, this.defaultParams, params)
Assign(defaults, given) ==
    [k \in DOMAIN defaults |-> IF k \in DOMAIN given THEN given[k] ELSE defaults[k]]

\* mutant: the cache is created whatever partialRender says
createPeakCacheAlways(t) == [t EXCEPT !.peakCache = NewPeakCache]

\* createPeakCache()
createPeakCache(t) ==
    IF t.params.partialRender THEN [t EXCEPT !.peakCache = NewPeakCache] ELSE t

\* createDrawer(): new this.Drawer(container, params), drawer.init(), the event
createDrawer(t) ==
    fireEvent(drawerCall([t EXCEPT !.drawer = "Drawer"], <<"drawer.init">>),
              <<"drawer-created">>)

\* init(), with no plugins
init(t) == createPeakCache(createDrawer(fireEvent(t, <<"plugins-registered">>)))

\* a call of init() or destroy() of the plugin instance this[name]
pluginCall(t, call) ==
    [t EXCEPT !.calls = Append(@, call), !.isReadyAt = Append(@, t.isReady),
              !.scrollParentAt = Append(@, t.params.scrollParent)]

\* addPlugin(plugin): plugin.instance says whether the definition has an instance
\* class, plugin.destroy whether its instances have a destroy function
addPlugin(t, plugin) ==
    IF plugin.name = "" THEN Throw(t, "Plugin does not have a name!")
    ELSE IF ~plugin.instance THEN Throw(t, "Plugin does not have an instance property!")
    ELSE fireEvent([t EXCEPT !.plugins[plugin.name] =
                                 [added |-> TRUE, destroy |-> plugin.destroy]],
                   <<"plugin-added", plugin.name>>)

\* delete this.initialisedPluginList[name]
Delete(list, name) == SelectSeq(list, LAMBDA n : n # name)

\* this.initialisedPluginList[name]
Initialised(list, name) == \E i \in DOMAIN list : list[i] = name

\* mutant: a plugin that is not active is destroyed all the same
destroyPluginInactive(t, name) ==
    IF ~t.plugins[name].added
    THEN Throw(t, "Plugin has not been added yet and cannot be destroyed!")
    ELSE IF ~t.plugins[name].destroy
    THEN Throw(t, "Plugin does not have a destroy function!")
    ELSE fireEvent([pluginCall(t, <<"plugin.destroy", name>>)
                       EXCEPT !.initialisedPluginList = Delete(@, name)],
                   <<"plugin-destroyed", name>>)

\* destroyPlugin(name)
destroyPlugin(t, name) ==
    IF ~t.plugins[name].added
    THEN Throw(t, "Plugin has not been added yet and cannot be destroyed!")
    ELSE IF ~Initialised(t.initialisedPluginList, name)
    THEN Throw(t, "Plugin is not active and cannot be destroyed!")
    ELSE IF ~t.plugins[name].destroy
    THEN Throw(t, "Plugin does not have a destroy function!")
    ELSE fireEvent([pluginCall(t, <<"plugin.destroy", name>>)
                       EXCEPT !.initialisedPluginList = Delete(@, name)],
                   <<"plugin-destroyed", name>>)

\* mutant: an initialised plugin is initialised again as it is
initPluginKeeping(t, name) ==
    IF ~t.plugins[name].added THEN Throw(t, "Plugin has not been added yet!")
    ELSE fireEvent([pluginCall(t, <<"plugin.init", name>>)
                       EXCEPT !.initialisedPluginList =
                                  IF Initialised(@, name) THEN @
                                  ELSE Append(@, name)],
                   <<"plugin-initialised", name>>)

\* initPlugin(name)
initPlugin(t, name) ==
    IF ~t.plugins[name].added THEN Throw(t, "Plugin has not been added yet!")
    ELSE LET t1 == IF Initialised(t.initialisedPluginList, name)
                   THEN destroyPlugin(t, name) ELSE t
         IN IF t1.thrown # NoError THEN t1
            ELSE fireEvent([pluginCall(t1, <<"plugin.init", name>>)
                               EXCEPT !.initialisedPluginList =
                                          IF Initialised(@, name) THEN @
                                          ELSE Append(@, name)],
                           <<"plugin-initialised", name>>)

\* plugins.forEach(plugin => this.addPlugin(plugin))
RECURSIVE AddEach(_, _)
AddEach(t, pluginList) ==
    IF pluginList = <<>> \/ t.thrown # NoError THEN t
    ELSE AddEach(addPlugin(t, Head(pluginList)), Tail(pluginList))

\* plugins.forEach(plugin => { if (!plugin.deferInit) this.initPlugin(plugin.name) })
RECURSIVE InitEach(_, _)
InitEach(t, pluginList) ==
    IF pluginList = <<>> \/ t.thrown # NoError THEN t
    ELSE InitEach(IF Head(pluginList).deferInit THEN t
                  ELSE initPlugin(t, Head(pluginList).name),
                  Tail(pluginList))

\* mutant: each plugin is initialised as soon as it is added
RECURSIVE AddAndInitEach(_, _)
AddAndInitEach(t, pluginList) ==
    IF pluginList = <<>> \/ t.thrown # NoError THEN t
    ELSE LET t1 == addPlugin(t, Head(pluginList))
             t2 == IF t1.thrown # NoError \/ Head(pluginList).deferInit THEN t1
                   ELSE initPlugin(t1, Head(pluginList).name)
         IN AddAndInitEach(t2, Tail(pluginList))

registerPluginsInTurn(t, pluginList) ==
    LET t1 == AddAndInitEach(t, pluginList) IN
    IF t1.thrown # NoError THEN t1
    ELSE fireEvent(t1, <<"plugins-registered">>)

\* registerPlugins(plugins)
registerPlugins(t, pluginList) ==
    LET t1 == InitEach(AddEach(t, pluginList), pluginList) IN
    IF t1.thrown # NoError THEN t1
    ELSE fireEvent(t1, <<"plugins-registered">>)

\* destroyAllPlugins(): destroyPlugin for each key, the keys taken beforehand
RECURSIVE DestroyEach(_, _)
DestroyEach(t, names) ==
    IF names = <<>> \/ t.thrown # NoError THEN t
    ELSE DestroyEach(destroyPlugin(t, Head(names)), Tail(names))

destroyAllPlugins(t) == DestroyEach(t, t.initialisedPluginList)

\* destroy(); unAll() removes every handler of the instance
destroy(t) ==
    LET t1 == destroyAllPlugins(t) IN
    IF t1.thrown # NoError THEN t1
    ELSE LET t2 == pluginCall(fireEvent(t1, <<"destroy">>), <<"unAll">>)
             t3 == IF t2.drawer # "null" THEN drawerCall(t2, <<"drawer.destroy">>) ELSE t2
         IN [t3 EXCEPT !.isDestroyed = TRUE, !.isReady = FALSE]

(***************************************************************************)
(* Actions: one per call the host makes on the instance                    *)
(***************************************************************************)
\* the fields of the instance t become the state
Commit(t, op, args) ==
    /\ params' = t.params
    /\ drawer' = t.drawer
    /\ peakCache' = t.peakCache
    /\ peaks' = t.peaks
    /\ duration' = t.duration
    /\ peakMax' = t.peakMax
    /\ curPosition' = t.curPosition
    /\ isReady' = t.isReady
    /\ isDestroyed' = t.isDestroyed
    /\ plugins' = t.plugins
    /\ initialisedPluginList' = t.initialisedPluginList
    /\ calls' = t.calls
    /\ last' = [op |-> op, args |-> args, thrown |-> t.thrown,
                drawBuffers |-> t.drawBuffers, isReadyAt |-> t.isReadyAt,
                scrollParentAt |-> t.scrollParentAt]

\* new WaveSurfer(p)
Constructor(p) ==
    /\ phase = "new"
    /\ LET t == [This EXCEPT !.params = Assign(DefaultParams, p),
                             !.thrown = ConstructorError(p)]
       IN /\ Commit(t, "constructor", <<p>>)
          /\ phase' = IF t.thrown = NoError THEN "constructed" ELSE "failed"
    /\ UNCHANGED <<parentWidth, audit, unzoomed, surface>>

\* wavesurfer.init()
InitCall ==
    /\ phase = "constructed"
    /\ Commit(init(This), "init", <<>>)
    /\ phase' = "initialised"
    /\ UNCHANGED <<parentWidth, audit, unzoomed, surface>>

\* wavesurfer.load(peaks, duration, pmax)
Load(peaksArg, durationArg, pmax) ==
    /\ phase = "initialised"
    /\ Commit(load(This, peaksArg, durationArg, pmax), "load", <<>>)
    /\ UNCHANGED <<phase, parentWidth, audit, unzoomed, surface>>

\* wavesurfer.toggleScroll()
ToggleScroll ==
    /\ phase = "initialised"
    /\ Commit(toggleScroll(This), "toggleScroll", <<>>)
    /\ UNCHANGED <<phase, parentWidth, audit, unzoomed, surface>>

\* wavesurfer.setWaveColor(color)
SetWaveColor ==
    /\ phase = "initialised"
    /\ Commit(setWaveColor(This), "setWaveColor", <<>>)
    /\ UNCHANGED <<phase, parentWidth, audit, unzoomed, surface>>

\* wavesurfer.zoom(pxPerSec)
Zoom(pxPerSec) ==
    /\ phase = "initialised"
    /\ Commit(zoom(This, pxPerSec), "zoom", <<pxPerSec>>)
    /\ UNCHANGED <<phase, parentWidth, audit, unzoomed, surface>>

\* the drawer emits 'scroll'
DrawerScroll ==
    /\ phase = "initialised"
    /\ Commit(onDrawerScroll(This), "on scroll", <<>>)
    /\ UNCHANGED <<phase, parentWidth, audit, unzoomed, surface>>

\* the drawer emits 'redraw'
DrawerRedraw ==
    /\ phase = "initialised"
    /\ Commit(onDrawerRedraw(This), "on redraw", <<>>)
    /\ UNCHANGED <<phase, parentWidth, audit, unzoomed, surface>>

\* the host resizes the container: drawer.getWidth() returns w from now on
HostResize(w) ==
    /\ phase = "initialised"
    /\ w # parentWidth
    /\ parentWidth' = w
    /\ calls' = <<>>
    /\ last' = [op |-> "resize", args |-> <<w>>, thrown |-> NoError, drawBuffers |-> 0,
                isReadyAt |-> <<>>, scrollParentAt |-> <<>>]
    /\ UNCHANGED <<phase, params, drawer, peakCache, peaks, duration, peakMax,
                   curPosition, isReady, isDestroyed, plugins, initialisedPluginList,
                   audit, unzoomed, surface>>

Init ==
    /\ phase = "new"
    /\ params = DefaultParams
    /\ drawer = "null"
    /\ peakCache = NullCache
    /\ peaks = "undefined"
    /\ duration = Undefined
    /\ peakMax = Undefined
    /\ curPosition = Undefined
    /\ isReady = FALSE
    /\ parentWidth \in 0 .. MaxParentWidth
    /\ calls = <<>>
    /\ last = [op |-> "none", args |-> <<>>, thrown |-> NoError, drawBuffers |-> 0,
                isReadyAt |-> <<>>, scrollParentAt |-> <<>>]
    /\ audit = NoAudit
    /\ isDestroyed = FALSE
    /\ plugins = NoPlugins
    /\ initialisedPluginList = <<>>
    /\ unzoomed = <<>>
    /\ surface = NoSurface

Next ==
    \/ \E p \in UserParams : Constructor(p)
    \/ InitCall
    \/ \E a \in LoadArgs : Load(a[1], a[2], a[3])
    \/ ToggleScroll
    \/ SetWaveColor
    \/ \E pxPerSec \in 0 .. MaxZoom : Zoom(pxPerSec)
    \/ DrawerScroll
    \/ DrawerRedraw
    \/ \E w \in 0 .. MaxParentWidth : HostResize(w)

Spec == Init /\ [][Next]_vars

\* the instance WaveSurfer.create(p) returns, p holding every option
Created(p) ==
    /\ phase = "initialised"
    /\ params = p
    /\ drawer = "Drawer"
    /\ peakCache = IF p.partialRender THEN NewPeakCache ELSE NullCache
    /\ peaks = "undefined"
    /\ duration = Undefined
    /\ peakMax = Undefined
    /\ curPosition = Undefined
    /\ isReady = FALSE
    /\ isDestroyed = FALSE
    /\ plugins = NoPlugins
    /\ initialisedPluginList = <<>>
    /\ parentWidth = 0
    /\ calls = <<>>
    /\ last = [op |-> "init", args |-> <<>>, thrown |-> NoError, drawBuffers |-> 0,
               isReadyAt |-> <<>>, scrollParentAt |-> <<>>]
    /\ audit = NoAudit
    /\ unzoomed = <<>>

(***************************************************************************)
(* The playback position followed: the instance is created, loaded and     *)
(* sought into                                                             *)
(***************************************************************************)
\* a progress below 0
Negative == -4

\* the arguments of seekTo(progress): k / ProgressDen for k up to
\* ProgressDen + 1, which is above 1; undefined, NaN, Infinity and a negative
\* number
SeekArgs ==
    {k * (One \div ProgressDen) : k \in 0 .. (ProgressDen + 1)}
    \cup {Undefined, NaN, Infinity, Negative}

\* wavesurfer.seekTo(progress)
SeekTo(progress) ==
    /\ phase = "initialised"
    /\ Commit(seekTo(This, progress), "seekTo", <<>>)
    /\ UNCHANGED <<phase, parentWidth, audit, unzoomed, surface>>

\* wavesurfer.seekTo(progress) of an instance made with new WaveSurfer(params)
\* and not initialised yet
SeekToEarly(progress) ==
    /\ phase = "constructed"
    /\ Commit(seekTo(This, progress), "seekTo", <<>>)
    /\ UNCHANGED <<phase, parentWidth, audit, unzoomed, surface>>

\* the times the host passes, in 1/One seconds: every multiple of
\* 1 / ProgressDen seconds up to MaxSkip seconds
Times == {j * (One \div ProgressDen) : j \in 0 .. (MaxSkip * ProgressDen)}

\* the arguments of setCurrentTime, skipForward and skipBackward: a time, or
\* none; setCurrentTime is given a negative number too
Seconds == Times \cup {Undefined}

\* the arguments of skip(offset): a time, forwards or backwards
Offsets == Times \cup {0 - x : x \in Times}

\* wavesurfer.setCurrentTime(seconds)
SetCurrentTime(seconds) ==
    /\ phase = "initialised"
    /\ Commit(setCurrentTime(This, seconds), "setCurrentTime", <<>>)
    /\ UNCHANGED <<phase, parentWidth, audit, unzoomed, surface>>

\* wavesurfer.skip(offset)
Skip(offset) ==
    /\ phase = "initialised"
    /\ Commit(skip(This, offset), "skip", <<>>)
    /\ UNCHANGED <<phase, parentWidth, audit, unzoomed, surface>>

\* wavesurfer.skipForward(seconds)
SkipForward(seconds) ==
    /\ phase = "initialised"
    /\ Commit(skipForward(This, seconds), "skipForward", <<>>)
    /\ UNCHANGED <<phase, parentWidth, audit, unzoomed, surface>>

\* wavesurfer.skipBackward(seconds)
SkipBackward(seconds) ==
    /\ phase = "initialised"
    /\ Commit(skipBackward(This, seconds), "skipBackward", <<>>)
    /\ UNCHANGED <<phase, parentWidth, audit, unzoomed, surface>>

\* wavesurfer.empty()
Empty ==
    /\ phase = "initialised"
    /\ Commit(empty(This), "empty", <<>>)
    /\ UNCHANGED <<phase, parentWidth, audit, unzoomed, surface>>

NextSeek ==
    \/ \E p \in UserParams : Constructor(p)
    \/ InitCall
    \/ \E a \in LoadArgs : Load(a[1], a[2], a[3])
    \/ \E progress \in SeekArgs : SeekTo(progress)
    \/ \E progress \in SeekArgs : SeekToEarly(progress)

SpecSeek == Init /\ [][NextSeek]_vars

(***************************************************************************)
(* The position moved: an initialised instance, scrolling or not, is       *)
(* loaded, sought, skipped, zoomed and emptied                             *)
(***************************************************************************)
InitSkip ==
    /\ \E scrollParent \in BOOLEAN :
          Created([DefaultParams EXCEPT !.container = TRUE, !.scrollParent = scrollParent])
    /\ surface = NoSurface

NextSkip ==
    \/ \E a \in LoadArgs : Load(a[1], a[2], a[3])
    \/ \E progress \in SeekArgs : SeekTo(progress)
    \/ \E seconds \in Seconds \cup {Negative} : SetCurrentTime(seconds)
    \/ \E offset \in Offsets : Skip(offset)
    \/ \E seconds \in Seconds : SkipForward(seconds)
    \/ \E seconds \in Seconds : SkipBackward(seconds)
    \/ \E pxPerSec \in 0 .. MaxZoom : Zoom(pxPerSec)
    \/ Empty

SpecSkip == InitSkip /\ [][NextSkip]_vars

(***************************************************************************)
(* The zoom followed: the instance is created, loaded, scrolled and        *)
(* zoomed, and what params held before the first zoom() is kept            *)
(***************************************************************************)
\* wavesurfer.zoom(pxPerSec), the values it found kept if it is the first
ZoomFollowed(pxPerSec) ==
    /\ phase = "initialised"
    /\ Commit(zoom(This, pxPerSec), "zoom", <<pxPerSec>>)
    /\ unzoomed' = IF unzoomed = <<>> THEN <<params.minPxPerSec, params.scrollParent>>
                   ELSE unzoomed
    /\ UNCHANGED <<phase, parentWidth, audit, surface>>

NextZoom ==
    \/ \E p \in UserParams : Constructor(p)
    \/ InitCall
    \/ \E a \in LoadArgs : Load(a[1], a[2], a[3])
    \/ ToggleScroll
    \/ \E pxPerSec \in 0 .. MaxZoom : ZoomFollowed(pxPerSec)

SpecZoom == Init /\ [][NextZoom]_vars


(***************************************************************************)
(* The plugins followed: an instance created with the default options is   *)
(* loaded, given plugins and destroyed                                     *)
(***************************************************************************)
\* the plugin definitions the host passes: a name (or none), an instance class
\* (or none) whose instances have a destroy function (or none)
PluginDefinitions == [name : PluginNames \cup {""}, instance : BOOLEAN, destroy : BOOLEAN]

\* wavesurfer.addPlugin(plugin)
AddPlugin(plugin) ==
    /\ phase = "initialised"
    /\ Commit(addPlugin(This, plugin), "addPlugin", <<plugin.name>>)
    /\ UNCHANGED <<phase, parentWidth, audit, unzoomed, surface>>

\* wavesurfer.initPlugin(name)
InitPlugin(name) ==
    /\ phase = "initialised"
    /\ Commit(initPlugin(This, name), "initPlugin", <<name>>)
    /\ UNCHANGED <<phase, parentWidth, audit, unzoomed, surface>>

\* wavesurfer.destroyPlugin(name)
DestroyPlugin(name) ==
    /\ phase = "initialised"
    /\ Commit(destroyPlugin(This, name), "destroyPlugin", <<name>>)
    /\ UNCHANGED <<phase, parentWidth, audit, unzoomed, surface>>

\* wavesurfer.destroy(); the host lets go of an instance that was destroyed
Destroy ==
    /\ phase = "initialised"
    /\ LET t == destroy(This)
       IN /\ Commit(t, "destroy", <<>>)
          /\ phase' = IF t.thrown = NoError THEN "destroyed" ELSE phase
    /\ UNCHANGED <<parentWidth, audit, unzoomed, surface>>

InitPlugins ==
    /\ Created([DefaultParams EXCEPT !.container = TRUE])
    /\ surface = NoSurface

NextPlugins ==
    \/ \E plugin \in PluginDefinitions : AddPlugin(plugin)
    \/ \E name \in PluginNames : InitPlugin(name)
    \/ \E name \in PluginNames : DestroyPlugin(name)
    \/ \E a \in LoadArgs : Load(a[1], a[2], a[3])
    \/ Destroy

SpecPlugins == InitPlugins /\ [][NextPlugins]_vars

(***************************************************************************)
(* The plugins registered: lists of plugin definitions are registered with *)
(* an initialised instance, and plugins are initialised and destroyed      *)
(***************************************************************************)
\* the definitions in a list, of plugins that have an instance class with a
\* destroy function: plugin.deferInit says whether init() is left to the host
Registrations ==
    [name : PluginNames \cup {""}, instance : {TRUE}, destroy : {TRUE},
     deferInit : BOOLEAN]

\* the lists of at most MaxRegistered definitions
RECURSIVE Lists(_)
Lists(n) ==
    IF n = 0 THEN {<<>>}
    ELSE Lists(n - 1) \cup {Append(l, r) : l \in {x \in Lists(n - 1) : Len(x) = n - 1},
                                           r \in Registrations}

\* wavesurfer.registerPlugins(plugins)
RegisterPlugins(pluginList) ==
    /\ phase = "initialised"
    /\ Commit(registerPlugins(This, pluginList), "registerPlugins", <<pluginList>>)
    /\ UNCHANGED <<phase, parentWidth, audit, unzoomed, surface>>

NextRegister ==
    \/ \E pluginList \in Lists(MaxRegistered) : RegisterPlugins(pluginList)
    \/ \E name \in PluginNames : InitPlugin(name)
    \/ \E name \in PluginNames : DestroyPlugin(name)

SpecRegister == InitPlugins /\ [][NextRegister]_vars

(***************************************************************************)
(* The drawer driven directly.  Its tile layout and its peak renderer are  *)
(* those of sections 4.2 and 4.3; it reads its options from the params it  *)
(* was constructed with.                                                   *)
(***************************************************************************)
\* the overlap margin: 2 * pixelRatio, rounded up to the next even integer
Overlap(pixelRatio) ==
    LET up == (2 * pixelRatio[1] + pixelRatio[2] - 1) \div pixelRatio[2]
    IN up + (up % 2)

\* the tiles from pixel column `start` on: each takes maxTileWidth columns, the
\* last takes what is left; every tile but the last carries the margin
RECURSIVE LayoutFrom(_, _, _, _)
LayoutFrom(start, totalWidth, maxTileWidth, margin) ==
    IF start >= totalWidth THEN <<>>
    ELSE LET width == Min2(maxTileWidth, totalWidth - start) IN
         <<[start |-> start, width |-> width,
            overlap |-> IF start + width < totalWidth THEN margin ELSE 0]>>
         \o LayoutFrom(start + width, totalWidth, maxTileWidth, margin)

\* mutant: only the tiles of full width are made
LayoutWholeTiles(totalWidth, maxTileWidth, pixelRatio) ==
    LayoutFrom(0, totalWidth - (totalWidth % maxTileWidth), maxTileWidth,
               Overlap(pixelRatio))

\* layout(totalWidth, maxTileWidth, pixelRatio)
Layout(totalWidth, maxTileWidth, pixelRatio) ==
    LayoutFrom(0, totalWidth, maxTileWidth, Overlap(pixelRatio))

\* |x|
Abs(x) == IF x < 0 THEN 0 - x ELSE x

\* the absolute maximum sample of a buffer, 0 for an empty one
AbsMax(buffer) ==
    IF buffer = <<>> THEN 0
    ELSE CHOOSE m \in {Abs(buffer[i]) : i \in DOMAIN buffer} :
             \A i \in DOMAIN buffer : Abs(buffer[i]) <= m

\* mutant: the samples are divided by peakMax whatever normalize says
NormalizerOfScale(buffer, p) == IF p.peakMax = 0 THEN 1 ELSE p.peakMax

\* what every sample is divided by: the larger of peakMax and, with normalize,
\* the absolute maximum sample of the draw; nothing to divide by is 1 (samples
\* already in [-1, 1])
Normalizer(buffer, p) ==
    LET m == IF p.normalize THEN Max2(p.peakMax, AbsMax(buffer)) ELSE p.peakMax
    IN IF m = 0 THEN 1 ELSE m

\* the pixel height of one extent of a column:
\* round(|normalizedValue| * halfCanvasHeight * barHeight), raised to
\* barMinHeight when that is configured, the height is smaller and the raw
\* sample is not zero
ColumnHeight(sample, normalizer, halfCanvasHeight, p) ==
    LET h == MathRoundRatio(Abs(sample) * halfCanvasHeight, p.barHeight[1],
                            normalizer * p.barHeight[2])
    IN IF IsNumber(p.barMinHeight) /\ h < p.barMinHeight /\ sample # 0
       THEN p.barMinHeight
       ELSE h

\* the heights of the extents painted for a buffer, one per sample
Heights(buffer, halfCanvasHeight, p) ==
    [i \in DOMAIN buffer |->
        ColumnHeight(buffer[i], Normalizer(buffer, p), halfCanvasHeight, p)]

\* the fields of the instance that a call on its drawer leaves alone
Instance == <<phase, params, drawer, peakCache, peaks, duration, peakMax, curPosition,
              isReady, isDestroyed, plugins, initialisedPluginList, parentWidth,
              audit, unzoomed>>

\* drawer.setWidth(totalWidth): the tiles are laid out anew
SetWidth(totalWidth) ==
    /\ phase = "initialised"
    /\ surface' = [surface EXCEPT !.width = totalWidth,
                                  !.tiles = Layout(totalWidth, params.maxCanvasWidth,
                                                   params.pixelRatio)]
    /\ calls' = <<>>
    /\ last' = [op |-> "setWidth", args |-> <<totalWidth>>, thrown |-> NoError,
                drawBuffers |-> 0, isReadyAt |-> <<>>, scrollParentAt |-> <<>>]
    /\ UNCHANGED Instance

\* the even tile widths 2, 4, ... up to MaxTileWidth
TileWidths == {m \in 2 .. MaxTileWidth : m % 2 = 0}

InitLayout ==
    /\ \E m \in TileWidths, r \in PixelRatios :
           Created([DefaultParams EXCEPT !.container = TRUE, !.maxCanvasWidth = m,
                                         !.pixelRatio = r])
    /\ surface = NoSurface

NextLayout == \E totalWidth \in 0 .. MaxTotalWidth : SetWidth(totalWidth)

SpecLayout == InitLayout /\ [][NextLayout]_vars

\* the renderer paints a peak buffer on a blank surface: the height of every
\* extent (the heights depend on nothing that was painted before)
Paint(buffer) ==
    /\ phase = "initialised"
    /\ surface.buffer = <<>>
    /\ surface' = [surface EXCEPT !.buffer = buffer,
                                  !.heights = Heights(buffer, surface.halfCanvasHeight,
                                                      params)]
    /\ calls' = <<>>
    /\ last' = [op |-> "paint", args |-> <<>>, thrown |-> NoError,
                drawBuffers |-> 0, isReadyAt |-> <<>>, scrollParentAt |-> <<>>]
    /\ UNCHANGED Instance

\* the scales of the bars: 1/2, 1, 3/2, 2
BarHeights == {<<1, 2>>, <<1, 1>>, <<3, 2>>, <<2, 1>>}

\* the peak buffers painted: up to MaxBufferLen samples in -MaxSample..MaxSample
Buffers == UNION {[1 .. n -> (0 - MaxSample) .. MaxSample] : n \in 1 .. MaxBufferLen}

InitRender ==
    /\ \E b \in BarHeights, m \in {Undefined} \cup (1 .. MaxBarMinHeight),
          n \in BOOLEAN, s \in 0 .. MaxSample :
           Created([DefaultParams EXCEPT !.container = TRUE, !.barHeight = b,
                                         !.barMinHeight = m, !.normalize = n,
                                         !.peakMax = s])
    /\ \E h \in 1 .. MaxHalfHeight : surface = [NoSurface EXCEPT !.halfCanvasHeight = h]

NextRender == \E buffer \in Buffers : Paint(buffer)

SpecRender == InitRender /\ [][NextRender]_vars

(***************************************************************************)
(* The cache driven directly: addRange(totalWidth, start, end) on the      *)
(* cache of an instance created with partialRender                         *)
(***************************************************************************)
\* the two total widths used; both bound every requested column
CacheWidths == MaxCol .. (MaxCol + 1)

\* peakCache.addRangeToPeakCache(totalWidth, start, end), with its bookkeeping
AddRange(totalWidth, start, end) ==
    /\ phase = "initialised"
    /\ ~peakCache.isNull
    /\ LET result == AddRangeResult(peakCache, totalWidth, start, end)
           run == IF totalWidth = audit.width THEN audit
                  ELSE [NoAudit EXCEPT !.width = totalWidth]
           call == [width |-> totalWidth, start |-> start, end |-> end,
                    result |-> result, before |-> peakCache]
       IN /\ peakCache' = AddRangeCache(peakCache, totalWidth, start, end)
          /\ audit' = [width |-> totalWidth,
                       requested |-> run.requested \cup (start .. (end - 1)),
                       returned |-> run.returned \cup Cols(result),
                       twice |-> run.twice \/ (Cols(result) \cap run.returned # {}),
                       history |-> IF audit.history = <<>> THEN <<call>>
                                   ELSE <<audit.history[Len(audit.history)], call>>]
          /\ calls' = <<>>
          /\ last' = [op |-> "addRange", args |-> <<totalWidth, start, end>>,
                      thrown |-> NoError, drawBuffers |-> 0,
                isReadyAt |-> <<>>, scrollParentAt |-> <<>>]
    /\ UNCHANGED <<phase, params, drawer, peaks, duration, peakMax, curPosition,
                   isReady, isDestroyed, plugins, initialisedPluginList, parentWidth,
                   unzoomed, surface>>

\* the instance WaveSurfer.create({container, partialRender: true}) returns
InitCache ==
    /\ phase = "initialised"
    /\ params = [DefaultParams EXCEPT !.container = TRUE, !.partialRender = TRUE]
    /\ drawer = "Drawer"
    /\ peakCache = NewPeakCache
    /\ peaks = "undefined"
    /\ duration = Undefined
    /\ peakMax = Undefined
    /\ curPosition = Undefined
    /\ isReady = FALSE
    /\ parentWidth = 0
    /\ calls = <<>>
    /\ last = [op |-> "init", args |-> <<>>, thrown |-> NoError, drawBuffers |-> 0,
                isReadyAt |-> <<>>, scrollParentAt |-> <<>>]
    /\ audit = NoAudit
    /\ isDestroyed = FALSE
    /\ plugins = NoPlugins
    /\ initialisedPluginList = <<>>
    /\ unzoomed = <<>>
    /\ surface = NoSurface

NextCache ==
    \E totalWidth \in CacheWidths, start \in 0 .. MaxCol :
        \E end \in start .. MaxCol : AddRange(totalWidth, start, end)

SpecCache == InitCache /\ [][NextCache]_vars

\* the last call on the cache and the one before it
LastCall == audit.history[Len(audit.history)]
PrevCall == audit.history[1]

\* the call found the width it was made with recorded
SameWidth(call) == ~Differs(call.width, call.before.peakCacheLength)

(***************************************************************************)
(* C1: in a run of addRange calls with one totalWidth, the columns of the  *)
(* sub-ranges returned so far are exactly the columns requested so far,    *)
(* and no column was returned by two calls of the run.                     *)
(***************************************************************************)
CacheCompleteness ==
    /\ audit.returned = audit.requested
    /\ ~audit.twice

\* two overlapping requests at one width, each returning something
CacheCompletenessWitness ==
    /\ Len(audit.history) = 2
    /\ SameWidth(LastCall)
    /\ PrevCall.result # <<>>
    /\ LastCall.result # <<>>
    /\ PrevCall.start < LastCall.start
    /\ LastCall.start < PrevCall.end
    /\ PrevCall.end < LastCall.end

(***************************************************************************)
(* C2: a call whose totalWidth differs from the recorded width, with       *)
(* start < end, returns exactly [start, end), and leaves exactly           *)
(* [start, end) painted, recorded for the new width.                       *)
(***************************************************************************)
CacheInvalidation ==
    (audit.history # <<>> /\ ~SameWidth(LastCall) /\ LastCall.start < LastCall.end)
    => /\ LastCall.result = << <<LastCall.start, LastCall.end>> >>
       /\ peakCache.peakCacheRanges = << <<LastCall.start, LastCall.end>> >>
       /\ peakCache.peakCacheLength = LastCall.width

\* back to an earlier width, asking again for columns that were painted for it
CacheInvalidationWitness ==
    /\ Len(audit.history) = 2
    /\ ~SameWidth(LastCall)
    /\ ~SameWidth(PrevCall)
    /\ PrevCall.before.peakCacheLength = LastCall.width
    /\ PrevCall.before.peakCacheRanges # <<>>
    /\ LastCall.start < LastCall.end
    /\ Cols(PrevCall.before.peakCacheRanges) \cap (LastCall.start .. (LastCall.end - 1)) # {}

(***************************************************************************)
(* C3: of two consecutive calls addRange(W, s, e) with s < e, the first on *)
(* an empty cache, the first returns the single range [s, e), the second   *)
(* returns nothing and leaves the painted set as it was.                   *)
(***************************************************************************)
StartedEmpty(call) == ~SameWidth(call) \/ call.before.peakCacheRanges = <<>>

CacheIdempotence ==
    (/\ Len(audit.history) = 2
     /\ StartedEmpty(PrevCall)
     /\ LastCall.width = PrevCall.width
     /\ LastCall.start = PrevCall.start
     /\ LastCall.end = PrevCall.end
     /\ LastCall.start < LastCall.end)
    => /\ PrevCall.result = << <<PrevCall.start, PrevCall.end>> >>
       /\ LastCall.result = <<>>
       /\ peakCache = LastCall.before

CacheIdempotenceWitness ==
    /\ Len(audit.history) = 2
    /\ StartedEmpty(PrevCall)
    /\ LastCall.width = PrevCall.width
    /\ LastCall.start = PrevCall.start
    /\ LastCall.end = PrevCall.end
    /\ LastCall.start + 1 < LastCall.end
    /\ LastCall.result = <<>>

(***************************************************************************)
(* C4: at an unchanged width the call returns the maximal gaps of          *)
(* [start, end) in the coverage it found: non-empty ranges inside          *)
(* [start, end), pairwise disjoint and non-touching, holding no column     *)
(* painted before and every column of [start, end) not painted before;     *)
(* after the call every column of [start, end) is painted.                 *)
(***************************************************************************)
CacheGaps ==
    (audit.history # <<>> /\ SameWidth(LastCall))
    => LET res == LastCall.result
           old == Cols(LastCall.before.peakCacheRanges)
           req == LastCall.start .. (LastCall.end - 1)
       IN /\ \A i \in DOMAIN res :
                 /\ res[i][1] < res[i][2]
                 /\ LastCall.start <= res[i][1]
                 /\ res[i][2] <= LastCall.end
          /\ \A i, j \in DOMAIN res :
                 i # j => (res[i][2] < res[j][1] \/ res[j][2] < res[i][1])
          /\ Cols(res) \cap old = {}
          /\ req \ old \subseteq Cols(res)
          /\ req \subseteq Cols(peakCache.peakCacheRanges)

\* a request that spans a painted range and has a gap on each side of it
CacheGapsWitness ==
    /\ audit.history # <<>>
    /\ SameWidth(LastCall)
    /\ Len(LastCall.result) = 2
    /\ Len(LastCall.before.peakCacheRanges) >= 1


(***************************************************************************)
(* What the last operation did, read from `calls`                          *)
(***************************************************************************)
\* the positions in `calls` of the drawPeaks calls made by drawBuffer()
\* (empty() makes one of its own, with a {length} object for peaks)
BufferDraws ==
    {i \in DOMAIN calls : calls[i][1] = "drawer.drawPeaks" /\ calls[i][2] # "{length}"}

\* the positions in `calls` of the 'redraw' events
Redraws == {i \in DOMAIN calls : calls[i][1] = "fireEvent" /\ calls[i][2] = "redraw"}

\* the events fired and the drawer calls made by the last operation
Events == {i \in DOMAIN calls : calls[i][1] = "fireEvent"}
DrawerCalls == DOMAIN calls \ Events

\* the integer nearest to a * n / d, halves upwards: k - 1/2 <= a * n / d < k + 1/2
Nearest(a, n, d) ==
    CHOOSE k \in ((a * n) \div d) .. ((a * n) \div d + 1) :
        2 * d * k - d <= 2 * a * n /\ 2 * a * n < 2 * d * k + d

\* round(duration * minPxPerSec * pixelRatio) in the current state
NominalNow ==
    IF IsNumber(duration)
    THEN Nearest(duration * params.minPxPerSec, params.pixelRatio[1], params.pixelRatio[2])
    ELSE NaN

(***************************************************************************)
(* C5: a load() that returns has made drawPeaks calls with the new peak    *)
(* buffer that together cover the whole requested range [start, end).      *)
(* The code does not: the cache is the facade's, drawer.setWidth(0) does   *)
(* not reach it, and with partialRender a second load at the same width    *)
(* finds every column painted and draws nothing.                           *)
(***************************************************************************)
LoadRepaints ==
    (last.op = "load" /\ last.thrown = NoError)
    => (DrawStart(This) .. (DrawEnd(This) - 1))
           \subseteq UNION {calls[i][4] .. (calls[i][5] - 1) :
                              i \in {j \in BufferDraws : calls[j][2] = peaks}}

(***************************************************************************)
(* C6: load() with peaks missing or empty, or with a falsy duration,       *)
(* throws one of its two errors, calls nothing on the drawer, fires no     *)
(* event and leaves peaks, duration, curPosition and isReady as they were. *)
(***************************************************************************)
BadLoadArgs(a) == a[1] \in {"undefined", "empty"} \/ a[2] \in {0, Undefined}

\* (a step of Load names itself in last': the steps of the other operations
\* are set aside by that conjunct before load() is evaluated)
LoadRejects ==
    [][\A a \in LoadArgs :
          (BadLoadArgs(a) /\ last'.op = "load" /\ Load(a[1], a[2], a[3]))
          => /\ last'.thrown \in {"peaks cannot be empty",
                                  "duration parameter cannot be empty"}
             /\ calls' = <<>>
             /\ UNCHANGED <<peaks, duration, curPosition, isReady>>]_vars

\* a rejected load() on an instance that shows a waveform
LoadRejectsWitness ==
    /\ last.op = "load"
    /\ last.thrown = "duration parameter cannot be empty"
    /\ isReady
    /\ peaks \in PeakBuffers

(***************************************************************************)
(* C7: the constructor throws for a maxCanvasWidth that is <= 1 or odd,    *)
(* and the drawer stays null; with a container, the error is the one about *)
(* maxCanvasWidth, and an even maxCanvasWidth > 1 passes that check.  No   *)
(* state has a drawer and an invalid maxCanvasWidth.                       *)
(***************************************************************************)
MaxCanvasWidthErrors ==
    {"maxCanvasWidth must be greater than 1", "maxCanvasWidth must be an even number"}

MaxCanvasWidthChecked ==
    LET m == params.maxCanvasWidth IN
    /\ last.op = "constructor"
       => /\ (m <= 1 \/ m % 2 = 1)
             => /\ phase = "failed"
                /\ last.thrown # NoError
                /\ drawer = "null"
                /\ params.container => last.thrown \in MaxCanvasWidthErrors
          /\ (m > 1 /\ m % 2 = 0) => last.thrown \notin MaxCanvasWidthErrors
    /\ drawer # "null" => (m > 1 /\ m % 2 = 0)

\* an odd maxCanvasWidth > 1 was rejected
MaxCanvasWidthCheckedWitness ==
    /\ last.op = "constructor"
    /\ params.container
    /\ params.maxCanvasWidth > 1
    /\ params.maxCanvasWidth % 2 = 1
    /\ last.thrown = "maxCanvasWidth must be an even number"

(***************************************************************************)
(* C8: the width drawBuffer() hands to the cache and to drawPeaks is the   *)
(* host's visible width when fillParent is set and (scrollParent is off or *)
(* the nominal width is smaller than the visible width), and the nominal   *)
(* width otherwise.                                                        *)
(***************************************************************************)
ClaimedWidth ==
    IF params.fillParent
       /\ (~params.scrollParent \/ (IsNumber(NominalNow) /\ NominalNow < parentWidth))
    THEN parentWidth
    ELSE NominalNow

DrawBufferWidth ==
    last.drawBuffers > 0
    => /\ \A i \in BufferDraws : calls[i][3] = ClaimedWidth
       /\ params.partialRender => peakCache.peakCacheLength = ClaimedWidth

\* scrolling with overflow: the nominal width is used although fillParent is set
DrawBufferWidthWitness ==
    /\ last.drawBuffers > 0
    /\ params.fillParent
    /\ params.scrollParent
    /\ params.partialRender
    /\ IsNumber(NominalNow)
    /\ NominalNow > parentWidth
    /\ params.pixelRatio[2] = 2
    /\ BufferDraws # {}

(***************************************************************************)
(* C9: with partialRender off there is no peak cache and every             *)
(* drawBuffer() makes exactly one drawPeaks call, for the whole requested  *)
(* range.                                                                  *)
(***************************************************************************)
FullRepaint ==
    ~params.partialRender
    => /\ peakCache.isNull
       /\ Cardinality(BufferDraws) = last.drawBuffers
       /\ \A i \in BufferDraws :
              calls[i] = <<"drawer.drawPeaks", peaks, DrawWidth(This),
                           DrawStart(This), DrawEnd(This)>>

\* a redraw of a waveform that load() had drawn already
FullRepaintWitness ==
    /\ ~params.partialRender
    /\ last.op = "setWaveColor"
    /\ isReady
    /\ Cardinality(BufferDraws) = 1
    /\ DrawEnd(This) > 0

(***************************************************************************)
(* C10: every drawBuffer() fires 'redraw' exactly once, after its          *)
(* drawPeaks calls, with the current peak buffer and the width it          *)
(* computed.                                                               *)
(***************************************************************************)
RedrawFired ==
    /\ Cardinality(Redraws) = last.drawBuffers
    /\ \A r \in Redraws :
          /\ \A i \in BufferDraws : i < r
          /\ calls[r] = <<"fireEvent", "redraw", peaks, DrawWidth(This)>>

\* partial render found nothing new to draw, and 'redraw' was fired
RedrawFiredWitness ==
    /\ params.partialRender
    /\ last.drawBuffers = 1
    /\ BufferDraws = {}
    /\ Redraws # {}
    /\ isReady

(***************************************************************************)
(* C11: a successful load(peaks, duration, pmax), one given peaks and a    *)
(* duration that returns, leaves peaks and duration equal to its           *)
(* arguments, the playback position 0 and isReady true; it fires 'ready'   *)
(* exactly once, as its last event and so after the 'redraw' of its draw;  *)
(* and isReady is false at every drawer call and event from the emptying   *)
(* of the view (drawer.progress(0), drawer.setWidth(0)) up to and          *)
(* including that 'redraw'.                                                *)
(***************************************************************************)
\* the positions in `calls` of the 'ready' events and of drawer.setWidth
Readys == {i \in DOMAIN calls : calls[i][1] = "fireEvent" /\ calls[i][2] = "ready"}
SetWidths == {i \in DOMAIN calls : calls[i][1] = "drawer.setWidth"}

LoadReady ==
    [][\A a \in LoadArgs :
          (/\ last'.op = "load"
           /\ last'.thrown = NoError
           /\ ~BadLoadArgs(a)
           /\ Load(a[1], a[2], a[3]))
          => /\ peaks' = a[1]
             /\ duration' = a[2]
             /\ curPosition' = 0
             /\ isReady'
             /\ Readys' = {Len(calls')}
             /\ Cardinality(Redraws') = 1
             /\ Cardinality(SetWidths') = 1
             /\ \A r \in Redraws', w \in SetWidths' :
                   /\ w < r
                   /\ r < Len(calls')
                   /\ \A i \in (w - 1) .. r : ~last'.isReadyAt[i]
             /\ last'.isReadyAt[Len(calls')]]_vars

\* a load() on an instance that was ready: isReady was true when load() began
\* and false when 'redraw' was fired
LoadReadyWitness ==
    /\ last.op = "load"
    /\ last.thrown = NoError
    /\ last.isReadyAt[1]
    /\ \E r \in Redraws : ~last.isReadyAt[r]
    /\ isReady

(***************************************************************************)
(* C12: once load(peaks, duration, pmax) has returned, the peak scale that *)
(* reaches the drawer for the draws that follow is pmax (0 when pmax is    *)
(* omitted or falsy): it is in the params object the drawer was made with, *)
(* or it is an argument of every drawPeaks call.                           *)
(* The code does not: load() stores pmax || 0 in this.peakMax, a field of  *)
(* the facade; params.peakMax keeps its default and drawPeaks is called    *)
(* with (peaks, width, start, end).                                        *)
(***************************************************************************)
PeakScaleReachesDrawer ==
    isReady
    => \/ params.peakMax = peakMax
       \/ /\ BufferDraws # {}
          /\ \A i \in BufferDraws : Len(calls[i]) > 5 /\ calls[i][6] = peakMax

(***************************************************************************)
(* C13: seekTo(progress) with a progress that is not a finite number in    *)
(* [0, 1] throws its error and changes nothing: no event is fired, no      *)
(* drawer method is called, and the playback position and params (with     *)
(* scrollParent) are as before.                                            *)
(***************************************************************************)
BadProgress(x) == x \in {Undefined, NaN, Infinity, Negative} \/ x > One

SeekRejects ==
    [][\A x \in SeekArgs :
          (BadProgress(x) /\ last'.op = "seekTo" /\ SeekTo(x))
          => /\ last'.thrown
                  = "Error calling wavesurfer.seekTo, parameter must be a number between 0 and 1!"
             /\ calls' = <<>>
             /\ UNCHANGED <<curPosition, params, duration, isReady>>]_vars

\* a rejected seekTo() on a loaded instance that had been sought into
SeekRejectsWitness ==
    /\ last.op = "seekTo"
    /\ last.thrown # NoError
    /\ isReady
    /\ IsNumber(curPosition)
    /\ curPosition > 0

(***************************************************************************)
(* C14: zoom(p) with a truthy p sets minPxPerSec to p and turns            *)
(* scrollParent on; zoom() with a falsy argument returns the waveform to   *)
(* its unzoomed state: minPxPerSec and scrollParent are again what they    *)
(* were before the first zoom() call.                                      *)
(* The code does not: zoom() with a falsy argument sets minPxPerSec to     *)
(* defaultParams.minPxPerSec and scrollParent to false, whatever the       *)
(* instance was created with and whatever toggleScroll() had made of       *)
(* scrollParent.                                                           *)
(***************************************************************************)
ZoomResets ==
    (last.op = "zoom" /\ last.thrown = NoError)
    => IF last.args[1] = 0
       THEN <<params.minPxPerSec, params.scrollParent>> = unzoomed
       ELSE params.minPxPerSec = last.args[1] /\ params.scrollParent

(***************************************************************************)
(* C15: for every totalWidth > 0 and every even maxTileWidth > 1 the       *)
(* layout has ceil(totalWidth / maxTileWidth) tiles in ascending order,    *)
(* tile k (from 0) starts at k * maxTileWidth, every tile but the last has *)
(* width maxTileWidth and the last has the remainder (maxTileWidth when    *)
(* there is none); without their margins the tiles are pairwise disjoint   *)
(* and their union is [0, totalWidth).                                     *)
(***************************************************************************)
\* the columns of tile i of the surface, its margin left out
TileSpan(i) ==
    surface.tiles[i].start .. (surface.tiles[i].start + surface.tiles[i].width - 1)

TileCoverage ==
    LET tiles == surface.tiles
        m == params.maxCanvasWidth
        w == surface.width
        n == Len(tiles)
    IN (last.op = "setWidth" /\ w > 0)
       => /\ (n - 1) * m < w /\ w <= n * m
          /\ \A i \in 1 .. n :
                /\ tiles[i].start = (i - 1) * m
                /\ i < n => tiles[i].width = m
                /\ i = n => tiles[i].width = (IF w % m = 0 THEN m ELSE w % m)
          /\ \A i, j \in 1 .. n : i # j => TileSpan(i) \cap TileSpan(j) = {}
          /\ UNION {TileSpan(i) : i \in 1 .. n} = 0 .. (w - 1)

\* three tiles, the last narrower, as maxCanvasWidth 100 and width 250 give
TileCoverageWitness ==
    /\ last.op = "setWidth"
    /\ Len(surface.tiles) = 3
    /\ surface.tiles[3].width < params.maxCanvasWidth
    /\ surface.tiles[1].overlap > 0

PluginRejects ==
    [][\A name \in PluginNames :
          (\/ /\ ~plugins[name].added
              /\ last'.op = "initPlugin"
              /\ InitPlugin(name)
           \/ /\ \/ ~plugins[name].added
                 \/ ~Initialised(initialisedPluginList, name)
                 \/ ~plugins[name].destroy
              /\ last'.op = "destroyPlugin"
              /\ DestroyPlugin(name))
          => /\ last'.thrown # NoError
             /\ calls' = <<>>
             /\ UNCHANGED <<initialisedPluginList, plugins>>]_vars

\* destroyPlugin() was refused for an initialised plugin that has no destroy
\* function, another plugin being initialised too
PluginRejectsWitness ==
    /\ last.op = "destroyPlugin"
    /\ last.thrown = "Plugin does not have a destroy function!"
    /\ Initialised(initialisedPluginList, last.args[1])
    /\ Len(initialisedPluginList) = 2

(***************************************************************************)
(* C18: whatever plugins are added and initialised, destroy() leaves no    *)
(* plugin initialised, isDestroyed true and isReady false, and fires       *)
(* 'destroy' exactly once, after the destroy() of every plugin that was    *)
(* initialised and before the handlers of the instance are removed.        *)
(* The code does not: destroyAllPlugins() lets the error of destroyPlugin  *)
(* through when an initialised plugin has no destroy function, and         *)
(* destroy() ends there.                                                   *)
(***************************************************************************)
\* the positions in `calls` of the 'destroy' events
Destroys == {i \in DOMAIN calls : calls[i] = <<"fireEvent", "destroy">>}

DestroyCompletes ==
    [][(last'.op = "destroy" /\ Destroy)
       => /\ initialisedPluginList' = <<>>
          /\ isDestroyed'
          /\ ~isReady'
          /\ Cardinality(Destroys') = 1
          /\ \A d \in Destroys' :
                /\ \A i \in DOMAIN initialisedPluginList :
                      \E c \in 1 .. (d - 1) :
                          calls'[c] = <<"plugin.destroy", initialisedPluginList[i]>>
                /\ \E u \in (d + 1) .. Len(calls') : calls'[u] = <<"unAll">>]_vars

(***************************************************************************)
(* C19: in every reachable state of the cache the painted entries are      *)
(* sorted ascending by start and no two of them overlap or touch: for      *)
(* consecutive entries a, b it holds a.end < b.start.                      *)
(***************************************************************************)
CacheSorted ==
    LET entries == peakCache.peakCacheRanges IN
    /\ \A i \in DOMAIN entries : entries[i][1] < entries[i][2]
    /\ \A i \in 1 .. (Len(entries) - 1) : entries[i][2] < entries[i + 1][1]

\* a range was inserted next to a painted one, before another: the first two
\* became one entry
CacheSortedWitness ==
    /\ audit.history # <<>>
    /\ SameWidth(LastCall)
    /\ Len(LastCall.before.peakCacheRanges) = 2
    /\ LastCall.start < LastCall.end
    /\ LastCall.start = LastCall.before.peakCacheRanges[1][2]
    /\ LastCall.end < LastCall.before.peakCacheRanges[2][1]
    /\ Len(peakCache.peakCacheRanges) = 2

DrawnIn(cs) ==
    LET d == SelectSeq(cs, LAMBDA c : c[1] = "drawer.drawPeaks" /\ c[2] # "{length}")
    IN [i \in DOMAIN d |-> <<d[i][4], d[i][5]>>]

PartialDraws ==
    [][(last'.drawBuffers = 1 /\ params'.partialRender)
       => LET returned == AddRangeResult(peakCache, DrawWidth(This)', DrawStart(This)',
                                         DrawEnd(This)')
          IN /\ DrawnIn(calls') = returned
             /\ \A i \in 1 .. (Len(returned) - 1) : returned[i][2] <= returned[i + 1][1]]_vars

\* the host made the container wider: the columns to the right of the painted
\* ones were returned and drawn, and nothing else
PartialDrawsWitness ==
    /\ params.partialRender
    /\ last.drawBuffers = 1
    /\ Cardinality(BufferDraws) = 1
    /\ \A i \in BufferDraws : calls[i][4] > 0 /\ calls[i][4] < calls[i][5]

(***************************************************************************)
(* C22: every pixel range drawBuffer() requests from the cache or from     *)
(* drawPeaks satisfies 0 <= start <= end <= width, width being the total   *)
(* width of the same call, whatever fillParent, scrollParent, the nominal  *)
(* width and the visible width are.                                        *)
(* The code does not: when the container is not filled, width is the       *)
(* nominal width and end is max(visible width, nominal width), which is    *)
(* beyond width in a container wider than the waveform.  (Stated here for  *)
(* a loaded instance; before the first load the nominal width is NaN.)     *)
(***************************************************************************)
RangesWithinWidth ==
    (isReady /\ last.drawBuffers > 0)
    => /\ 0 <= DrawStart(This)
       /\ DrawStart(This) <= DrawEnd(This)
       /\ DrawEnd(This) <= DrawWidth(This)
       /\ \A i \in BufferDraws :
             0 <= calls[i][4] /\ calls[i][4] <= calls[i][5] /\ calls[i][5] <= calls[i][3]

(***************************************************************************)
(* C23: on an initialised instance a seekTo(p) with a valid p fires        *)
(* 'interaction', sets the position to p * getDuration() and calls         *)
(* drawer.progress(p), then fires 'seek' with p, in that order and each    *)
(* exactly once; and once a load has succeeded, whatever load, seekTo,     *)
(* skip, skipForward, skipBackward, setCurrentTime and zoom calls follow,  *)
(* 0 <= getCurrentTime() <= getDuration() and getPlayedPercents() is in    *)
(* [0, 1].                                                                 *)
(***************************************************************************)
SeekSteps ==
    [][/\ \A x \in SeekArgs :
             (last'.op = "seekTo" /\ ~BadProgress(x) /\ SeekTo(x))
             => /\ calls' = << <<"fireEvent", "interaction">>,
                               <<"drawer.progress", x>>,
                               <<"fireEvent", "seek", x>> >>
                /\ curPosition' = Mul(x, getDuration(This))
       /\ isReady'
             => /\ IsNumber(getCurrentTime(This)')
                /\ 0 <= getCurrentTime(This)'
                /\ getCurrentTime(This)' <= getDuration(This)' * One
                /\ 0 <= getPlayedPercents(This)'
                /\ getPlayedPercents(This)' <= One]_vars

\* a loaded instance was sought to the middle
SeekStepsWitness ==
    /\ last.op = "seekTo"
    /\ last.thrown = NoError
    /\ isReady
    /\ Len(calls) = 3
    /\ 0 < curPosition
    /\ curPosition < duration * One
    /\ getPlayedPercents(This) = One \div ProgressDen

(***************************************************************************)
(* C24: seekTo leaves params.scrollParent unchanged: after every seekTo    *)
(* call, however it ends, params.scrollParent is what it was before the    *)
(* call, and it is false during the drawer.progress call seekTo makes.     *)
(* The code does not: scrollParent is restored by a statement after        *)
(* drawer.progress(), so a seekTo() that ends in that call, as it does on  *)
(* an instance whose init() has not created the drawer, leaves it false.   *)
(***************************************************************************)
ScrollParentKept ==
    [][last'.op = "seekTo"
       => /\ params'.scrollParent = params.scrollParent
          /\ \A i \in DOMAIN calls' :
                calls'[i][1] = "drawer.progress" => ~last'.scrollParentAt[i]]_vars

(***************************************************************************)
(* C25: skip(offset), skipForward(seconds) and skipBackward(seconds) never *)
(* trigger seekTo's range error: the target position is clamped to         *)
(* [0, duration] (duration taken as 1 when unset or 0), the fraction       *)
(* passed to seekTo is in [0, 1], drawer.recenter is called with the same  *)
(* fraction after seekTo, and a missing or zero seconds argument skips by  *)
(* params.skipLength.                                                      *)
(***************************************************************************)
\* the step skipped by offset (in 1/One seconds) from the position it found
SkippedBy(offset) ==
    LET d        == IF duration \in {Undefined, 0} THEN 1 ELSE duration
        position == IF IsNumber(curPosition) THEN curPosition ELSE 0
        target   == IF position + offset < 0 THEN 0
                    ELSE IF position + offset > d * One THEN d * One
                    ELSE position + offset
    IN /\ last'.thrown = NoError
       /\ Len(calls') = 4
       /\ calls'[1] = <<"fireEvent", "interaction">>
       /\ calls'[2][1] = "drawer.progress"
       /\ 0 <= calls'[2][2] /\ calls'[2][2] <= One
       /\ calls'[2][2] * d = target
       /\ calls'[3] = <<"fireEvent", "seek", calls'[2][2]>>
       /\ calls'[4] = <<"drawer.recenter", calls'[2][2]>>

SkipSteps ==
    [][/\ \A offset \in Offsets :
             (last'.op = "skip" /\ Skip(offset)) => SkippedBy(offset)
       /\ \A seconds \in Seconds :
             (last'.op = "skipForward" /\ SkipForward(seconds))
             => SkippedBy(IF seconds \in {Undefined, 0} THEN params.skipLength * One
                          ELSE seconds)
       /\ \A seconds \in Seconds :
             (last'.op = "skipBackward" /\ SkipBackward(seconds))
             => SkippedBy(IF seconds \in {Undefined, 0} THEN 0 - params.skipLength * One
                          ELSE 0 - seconds)]_vars

\* a loaded instance was skipped back from its end to its middle
SkipStepsWitness ==
    /\ last.op = "skipBackward"
    /\ last.thrown = NoError
    /\ isReady
    /\ 0 < curPosition
    /\ curPosition < duration * One
    /\ calls[4] = <<"drawer.recenter", One \div ProgressDen>>

(***************************************************************************)
(* C26: initPlugin(name) on a plugin that is already initialised first     *)
(* destroys it and then initialises it again: the order is destroy(),      *)
(* 'plugin-destroyed', init(), 'plugin-initialised', and the plugin is in  *)
(* the initialised set at the end; if the destroy step fails, init() is    *)
(* not called.                                                             *)
(***************************************************************************)
InitAgain ==
    [][\A name \in PluginNames :
          (/\ last'.op = "initPlugin"
           /\ last'.args = <<name>>
           /\ Initialised(initialisedPluginList, name))
          => IF last'.thrown = NoError
             THEN /\ calls' = << <<"plugin.destroy", name>>,
                                 <<"fireEvent", "plugin-destroyed", name>>,
                                 <<"plugin.init", name>>,
                                 <<"fireEvent", "plugin-initialised", name>> >>
                  /\ Initialised(initialisedPluginList', name)
             ELSE \A i \in DOMAIN calls' : calls'[i][1] # "plugin.init"]_vars

\* the plugin initialised first of two was initialised again
InitAgainWitness ==
    /\ last.op = "initPlugin"
    /\ last.thrown = NoError
    /\ Len(calls) = 4
    /\ Len(initialisedPluginList) = 2
    /\ initialisedPluginList[2] = last.args[1]

(***************************************************************************)
(* C27: registerPlugins(plugins) adds every plugin of the list before it   *)
(* calls init() on any of them, initialises exactly the plugins whose      *)
(* deferInit is falsey, in list order, and fires 'plugins-registered'      *)
(* exactly once, after the last initialisation.                            *)
(***************************************************************************)
\* the names in the calls among cs that are call (a tuple of the strings before
\* the name), in order
Named(cs, call) ==
    LET d == SelectSeq(cs, LAMBDA c : SubSeq(c, 1, Len(call)) = call)
    IN [i \in DOMAIN d |-> d[i][Len(call) + 1]]

RegisterOrder ==
    [][last'.op = "registerPlugins"
       => LET pluginList == last'.args[1]
              eager      == SelectSeq(pluginList, LAMBDA r : ~r.deferInit)
          IN /\ \A i, j \in DOMAIN calls' :
                    (calls'[i][1] = "plugin.init" /\ calls'[j][1] = "fireEvent"
                        /\ calls'[j][2] = "plugin-added")
                    => j < i
             /\ last'.thrown = NoError
                    => /\ Named(calls', <<"fireEvent", "plugin-added">>)
                            = [i \in DOMAIN pluginList |-> pluginList[i].name]
                       /\ Named(calls', <<"plugin.init">>)
                            = [i \in DOMAIN eager |-> eager[i].name]
                       /\ calls'[Len(calls')] = <<"fireEvent", "plugins-registered">>
                       /\ \A i \in 1 .. (Len(calls') - 1) :
                             calls'[i] # <<"fireEvent", "plugins-registered">>]_vars

\* two plugins were registered, the first to be initialised by the host later
RegisterOrderWitness ==
    /\ last.op = "registerPlugins"
    /\ last.thrown = NoError
    /\ Len(last.args[1]) = 2
    /\ last.args[1][1].deferInit
    /\ ~last.args[1][2].deferInit
    /\ last.args[1][1].name # last.args[1][2].name
    /\ initialisedPluginList = <<last.args[1][2].name>>

(***************************************************************************)
(* C28: when the drawer emits 'redraw', the handler of the facade runs     *)
(* drawBuffer and then updates the progress of the drawer with the played  *)
(* fraction getCurrentTime() / duration (0 when undefined), and completes  *)
(* without raising an error.                                               *)
(* The code does not: the handler reads the fraction from this.backend,    *)
(* which no statement assigns, so it ends in a TypeError after drawBuffer  *)
(* and the drawer is never told the progress.                              *)
(***************************************************************************)
RedrawCompletes ==
    last.op = "on redraw"
    => /\ last.thrown = NoError
       /\ last.drawBuffers = 1
       /\ Len(calls) > 0
       /\ calls[Len(calls)] = <<"drawer.progress", getPlayedPercents(This)>>

(***************************************************************************)
(* C29: every fraction the facade passes to drawer.progress or             *)
(* drawer.recenter (from seekTo, seekAndCenter, zoom and empty) is a       *)
(* finite number in [0, 1], in every reachable state, before the first     *)
(* load and after empty() has set the duration to 0 included.              *)
(* The code does not: zoom() passes getCurrentTime() / getDuration() to    *)
(* drawer.recenter, which is NaN while the duration is undefined or 0.     *)
(***************************************************************************)
FractionsFinite ==
    \A i \in DOMAIN calls :
        calls[i][1] \in {"drawer.progress", "drawer.recenter"}
        => /\ IsNumber(calls[i][2])
           /\ calls[i][2] <= One

=============================================================================
